---------------------------- MODULE Spec2Model ----------------------------
(***************************************************************************)
(* A model of paperwork.py: the local mirror (Paperwork, Notebook, Note,   *)
(* Tag of paperworks/models.py) and the api wrapper it talks through       *)
(* (paperworks/wrapper.py).                                                *)
(*                                                                         *)
(* Python objects live in three heaps (nbs, nts, tgs) addressed by         *)
(* references, so that "the same object" and "an equal object" differ.     *)
(* The remote service is the environment: every answer of the transport    *)
(* is an input of the operation that asks for it, None (a failed request)  *)
(* included.  Every operation is one action: it runs the whole method on   *)
(* a world record and commits the world it ends in, together with the      *)
(* requests it sent (calls) and the exception it ended with (raised).      *)
(***************************************************************************)
EXTENDS Integers, Sequences, FiniteSets, TLC

VARIABLES
    notebooks,      \* Paperwork.notebooks : notebook id -> Notebook reference
    tags,           \* Paperwork.tags      : tag id -> Tag reference
    nbs,            \* heap of Notebook objects
    nts,            \* heap of Note objects
    tgs,            \* heap of Tag objects
    trace,          \* requests sent and collection steps of the last operation, in order
    raised,         \* exception the last operation ended with ("none" if it returned)
    op,             \* the last operation and its inputs
    server,         \* the remote service's copy of note 1 of notebook 1
    pending         \* per caller: the Note.update() that waits between its fetch and its compare

vars == <<notebooks, tags, nbs, nts, tgs, trace, raised, op, server, pending>>

-----------------------------------------------------------------------------
(* Bounds of the model.                                                    *)

MaxTime == 2            \* the server's timestamps are 1 .. MaxTime
MaxNotebookObjs == 3    \* Notebook objects alive at once
MaxNoteObjs == 2        \* Note objects alive at once
MaxTagObjs == 2         \* Tag objects alive at once
MaxChoices == 3         \* candidates of a fuzzy_find
MaxScore == 2           \* fuzz.ratio answers 0 .. MaxScore (the library: 0 .. 100)
MaxServerTime == 3      \* the timestamps the remote service gives to writes of the race
NotebookIds == {1, 2}
NoteIds == {1}
TagIds == {1}
NbRefs == 1 .. MaxNotebookObjs
NoteRefs == 1 .. MaxNoteObjs
TagRefs == 1 .. MaxTagObjs
Titles == {"a", "b"}
Contents == {"x", "y"}

\* updated_at is a timestamp string compared with < and <=.  The server's
\* timestamps have one fixed width, so they are ordered like the numbers
\* 1..MaxTime; the empty string '' (the default of a new Notebook) is below
\* every one of them and is the number 0.
EmptyTime == 0
Times == 1 .. MaxTime

\* Optional values: None, or Some(x).
None == <<>>
Some(x) == <<x>>
IsNone(x) == Len(x) = 0
Val(x) == x[1]

EmptyMap == [x \in {} |-> 0]
Remove(f, k) == [x \in DOMAIN f \ {k} |-> f[x]]
Put(f, k, v) == [x \in DOMAIN f \cup {k} |-> IF x = k THEN v ELSE f[x]]
Range(f) == {f[x] : x \in DOMAIN f}

RECURSIVE SeqOf(_)
\* The elements of a set of numbers as a sequence, in ascending order.
SeqOf(S) ==
    IF S = {} THEN <<>>
    ELSE LET m == CHOOSE x \in S : \A y \in S : x <= y
         IN <<m>> \o SeqOf(S \ {m})


-----------------------------------------------------------------------------
(* wrapper.py: the api wrapper.  A request is what api.request is called   *)
(* with; its answer is an input of the operation that sends it.            *)

\* api_path: the number of path arguments of each resource key's template.
api_path ==
    [notebooks |-> 0, notebook |-> 1, notes |-> 1, note |-> 2, move |-> 3,
     versions |-> 2, version |-> 3, attachments |-> 3, attachment |-> 4,
     tags |-> 0, tag |-> 1, tagged |-> 1, search |-> 1, i18n |-> 0, i18nkey |-> 1]

\* api.request(data, method, keyword, *args)
request(data, method, keyword, args) ==
    [kind |-> "request", method |-> method, key |-> keyword,
     args |-> args, data |-> data]

\* b64(string): the base64 text of the string's UTF-8 bytes, for the keywords
\* of the model.
b64(string) ==
    CASE string = "" -> ""
      [] string = "a" -> "YQ=="
      [] string = "b" -> "Yg=="

get(keyword, args) == request(None, "GET", keyword, args)
post(data, keyword, args) == request(Some(data), "POST", keyword, args)
put(data, keyword, args) == request(Some(data), "PUT", keyword, args)
delete(keyword, args) == request(None, "DELETE", keyword, args)

\* ','.join(str(id) for id in ids): one id is the id itself.
JoinIds(ids) == IF Len(ids) = 1 THEN ids[1] ELSE ids

list_notebooks == get("notebooks", <<>>)
create_notebook(title) ==
    post([type |-> 0, title |-> title, shortcut |-> ""], "notebooks", <<>>)
get_notebook(notebook_id) == get("notebook", <<notebook_id>>)
update_notebook(notebook) == put(notebook, "notebook", <<notebook.id>>)
delete_notebook(notebook_id) == delete("notebook", <<notebook_id>>)
list_notebook_notes(notebook_id) == get("notes", <<notebook_id>>)
create_note(notebook_id, note_title) ==
    post([title |-> note_title, content |-> "", content_preview |-> ""],
         "notes", <<notebook_id>>)
get_notes(notebook_id, note_ids) == get("note", <<notebook_id, JoinIds(note_ids)>>)
get_note(notebook_id, note_id) == get_notes(notebook_id, <<note_id>>)
update_note(note) == put(note, "note", <<note.notebook_id, note.id>>)
delete_notes(notes) ==
    delete("note", <<notes[1].notebook_id,
                     JoinIds([i \in 1 .. Len(notes) |-> notes[i].id])>>)
delete_note(note) == delete_notes(<<note>>)
move_notes(notes, new_notebook_id) ==
    get("move", <<notes[1].notebook_id,
                  JoinIds([i \in 1 .. Len(notes) |-> notes[i].id]),
                  new_notebook_id>>)
move_note(note, new_notebook_id) == move_notes(<<note>>, new_notebook_id)
list_notes_versions(notes) ==
    get("versions", <<notes[1].notebook_id,
                      JoinIds([i \in 1 .. Len(notes) |-> notes[i].id])>>)
list_note_versions(note) == list_notes_versions(<<note>>)
get_note_version(note, version_id) ==
    get("version", <<note.notebook_id, note.id, version_id>>)
list_note_attachments(note) ==
    get("attachments", <<note.notebook_id, note.id, note.versions[1].id>>)
get_note_attachment(note, attachment_id) ==
    get("attachment", <<note.notebook_id, note.id, note.versions[1].id, attachment_id>>)
delete_note_attachment(note, attachment_id) ==
    delete("attachment", <<note.notebook_id, note.id, note.versions[1].id, attachment_id>>)
list_tags == get("tags", <<>>)
get_tag(tag_id) == get("tag", <<tag_id>>)
list_tagged(tag_id) == get("tagged", <<tag_id>>)
search(keyword) == get("search", <<b64(keyword)>>)
\* i18n(keyword=None): an empty keyword counts as none.
i18n(keyword) == IF keyword # "" THEN get("i18nkey", <<keyword>>) ELSE get("i18n", <<>>)

\* What api.request returns for what the transport did: the envelope's
\* response, or None when the transport raised (the except clause logs it)
\* or the envelope says success is False.
request_returns(outcome) ==
    IF outcome.raises THEN None
    ELSE IF ~outcome.success THEN None
    ELSE Some(outcome.response)

\* The wrapper operations that return the transport's answer as it is, and
\* those that return its first element (delete_note, move_note).
ApiNames ==
    {"list_notebooks", "create_notebook", "get_notebook", "update_notebook",
     "delete_notebook", "list_notebook_notes", "create_note", "get_note",
     "get_notes", "update_note", "delete_note", "delete_notes", "move_note",
     "move_notes", "list_tags", "list_note_versions", "list_notes_versions",
     "get_note_version", "list_note_attachments", "get_note_attachment",
     "delete_note_attachment", "get_tag", "list_tagged", "search", "i18n"}
ApiIndexed == {"delete_note", "move_note"}

\* What the wrapper operation `name' hands to its caller when api.request
\* returned `answer': indexing None raises TypeError.
api_returns(name, answer) ==
    IF name \in ApiIndexed
    THEN IF IsNone(answer) THEN [raised |-> "TypeError", value |-> None]
         ELSE [raised |-> "none", value |-> Some(Val(answer)[1])]
    ELSE [raised |-> "none", value |-> answer]

\* The request the wrapper operation `name' sends for notebook k, note i of
\* it (its first version has the note's id), the other id k2 (a notebook, a
\* version, an attachment or a tag) and a title or keyword.
api_request(name, k, i, k2, title) ==
    LET note == [id |-> i, title |-> title, content |-> "x", tags |-> {},
                 notebook_id |-> k]
        versioned == [id |-> i, notebook_id |-> k, versions |-> <<[id |-> i]>>]
    IN CASE name = "list_notebooks" -> list_notebooks
         [] name = "create_notebook" -> create_notebook(title)
         [] name = "get_notebook" -> get_notebook(k)
         [] name = "update_notebook" ->
               update_notebook([type |-> 0, id |-> k, title |-> title])
         [] name = "delete_notebook" -> delete_notebook(k)
         [] name = "list_notebook_notes" -> list_notebook_notes(k)
         [] name = "create_note" -> create_note(k, title)
         [] name = "get_note" -> get_note(k, i)
         [] name = "get_notes" -> get_notes(k, <<i>>)
         [] name = "update_note" -> update_note(note)
         [] name = "delete_note" -> delete_note(note)
         [] name = "delete_notes" -> delete_notes(<<note>>)
         [] name = "move_note" -> move_note(note, k2)
         [] name = "move_notes" -> move_notes(<<note>>, k2)
         [] name = "list_tags" -> list_tags
         [] name = "list_note_versions" -> list_note_versions(note)
         [] name = "list_notes_versions" -> list_notes_versions(<<note>>)
         [] name = "get_note_version" -> get_note_version(note, k2)
         [] name = "list_note_attachments" -> list_note_attachments(versioned)
         [] name = "get_note_attachment" -> get_note_attachment(versioned, k2)
         [] name = "delete_note_attachment" -> delete_note_attachment(versioned, k2)
         [] name = "get_tag" -> get_tag(k2)
         [] name = "list_tagged" -> list_tagged(k2)
         [] name = "search" -> search(title)
         [] name = "i18n" -> i18n(title)

-----------------------------------------------------------------------------
(* The world a method runs on, and its bookkeeping.                        *)

World ==
    [notebooks |-> notebooks, tags |-> tags, nbs |-> nbs, nts |-> nts,
     tgs |-> tgs, trace |-> <<>>, raised |-> "none", full |-> FALSE]

\* The method sends a request.
Send(w, req) == [w EXCEPT !.trace = Append(@, req)]

\* The method changes a collection: a step kept in the trace, for the order of
\* a method's steps.
Step(w, what, args) ==
    [w EXCEPT !.trace = Append(@, [kind |-> "local", method |-> what,
                                   key |-> "", args |-> args, data |-> None])]

\* The method ends with an exception.
Raise(w, exc) == [w EXCEPT !.raised = exc]

Requests(t) == SelectSeq(t, LAMBDA e : e.kind = "request")
RequestsTo(t, keyword) ==
    SelectSeq(t, LAMBDA e : e.kind = "request" /\ e.key = keyword)
Writes(t) ==
    SelectSeq(t, LAMBDA e : e.kind = "request" /\ e.method \in {"PUT", "POST", "DELETE"})

RECURSIVE Closure(_, _, _)
\* The Notebook and Note objects reachable from the Notebooks NB and Notes NT.
Closure(w, NB, NT) ==
    LET NT2 == NT \cup UNION {Range(w.nbs[r].notes) : r \in NB}
        NB2 == NB \cup {w.nts[n].notebook : n \in NT2}
    IN IF NB2 = NB /\ NT2 = NT THEN [nb |-> NB, nt |-> NT]
       ELSE Closure(w, NB2, NT2)

\* The objects reachable from the Paperwork object.
Live(w) == Closure(w, Range(w.notebooks), {})
LiveTags(w) == Range(w.tags) \cup UNION {w.nts[n].tags : n \in Live(w).nt}

Least(S) == CHOOSE x \in S : \A y \in S : x <= y

\* A new object takes the least reference that no reachable object has.  When
\* the model's heap has none left the method stops with "HeapFull", which no
\* action commits: the bound of the heap is a guard of every action.
NewRef(free) == IF free = {} THEN 0 ELSE Least(free)
NewNotebookRef(w) == NewRef(NbRefs \ Live(w).nb)
NewNoteRef(w) == NewRef(NoteRefs \ Live(w).nt)
NewTagRef(w) == NewRef(TagRefs \ LiveTags(w))

-----------------------------------------------------------------------------
(* models.py: Notebook, Note, Tag.                                         *)

\* Notebook.from_json(json, api): updated_at is '' whatever the json holds.
Notebook_from_json(json) ==
    [id |-> json.id, title |-> json.title, type |-> json.type,
     updated_at |-> EmptyTime, notes |-> EmptyMap]

\* Notebook.to_json()
Notebook_to_json(nb) == [type |-> nb.type, id |-> nb.id, title |-> nb.title]

\* Note.from_json(json, notebook): notebook is the reference of the owner.
Note_from_json(json, notebook) ==
    [id |-> json.id, title |-> json.title, content |-> json.content,
     updated_at |-> json.updated_at, notebook |-> notebook, tags |-> {}]

\* Tag.from_json(json, api)
Tag_from_json(json) ==
    [id |-> json.id, title |-> json.title, visibility |-> json.visibility,
     notes |-> {}]

\* Tag.to_json()
Tag_to_json(tag) == [id |-> tag.id, title |-> tag.title, visibility |-> tag.visibility]

\* Note.to_json(): notebook_id is the id of the Notebook the Note refers to.
Note_to_json(w, n) ==
    [id |-> w.nts[n].id, title |-> w.nts[n].title, content |-> w.nts[n].content,
     tags |-> {Tag_to_json(w.tgs[t]) : t \in w.nts[n].tags},
     notebook_id |-> w.nbs[w.nts[n].notebook].id]

\* Notebook.add_note(note)
Notebook_add_note(w, nb, n) ==
    Step([w EXCEPT !.nbs[nb].notes = Put(@, w.nts[n].id, n)],
         "add_note", <<w.nbs[nb].id, w.nts[n].id>>)

\* Note.add_tags(tags)
Note_add_tags(w, n, ts) ==
    Step([w EXCEPT !.nts[n].tags = @ \cup ts],
         "add_tags", <<w.nts[n].id, {w.tgs[t].id : t \in ts}>>)

\* Notebook.delete(): the remote delete and nothing else; its answer is not
\* looked at.
Notebook_delete(w, nb, answer) == Send(w, delete_notebook(w.nbs[nb].id))

\* Notebook.update with <= where the method has <: a tie would push.
Notebook_update_or_equal(w, nb, force, remote, written) ==
    LET self == w.nbs[nb]
        w1 == Send(w, get_notebook(self.id))
    IN IF IsNone(remote) THEN w1
       ELSE IF force \/ Val(remote).updated_at <= self.updated_at
            THEN Send(w1, update_notebook(Notebook_to_json(self)))
            ELSE [w1 EXCEPT !.nbs[nb].title = Val(remote).title,
                            !.nbs[nb].updated_at = Val(remote).updated_at]

\* Notebook.update testing force before it tests whether the remote copy is
\* there: a forced update of a notebook that is gone would still write.
Notebook_update_force_first(w, nb, force, remote, written) ==
    LET self == w.nbs[nb]
        w1 == Send(w, get_notebook(self.id))
    IN IF force THEN Send(w1, update_notebook(Notebook_to_json(self)))
       ELSE IF IsNone(remote) THEN w1
       ELSE IF Val(remote).updated_at < self.updated_at
            THEN Send(w1, update_notebook(Notebook_to_json(self)))
            ELSE [w1 EXCEPT !.nbs[nb].title = Val(remote).title,
                            !.nbs[nb].updated_at = Val(remote).updated_at]

\* Notebook.update(force): remote is the answer to get_notebook and written
\* the answer to update_notebook, each None when the request failed.  The
\* method does not look at written.
Notebook_update(w, nb, force, remote, written) ==
    LET self == w.nbs[nb]
        w1 == Send(w, get_notebook(self.id))
    IN IF IsNone(remote) THEN w1
       ELSE IF force \/ Val(remote).updated_at < self.updated_at
            THEN Send(w1, update_notebook(Notebook_to_json(self)))
            ELSE [w1 EXCEPT !.nbs[nb].title = Val(remote).title,
                            !.nbs[nb].updated_at = Val(remote).updated_at]

\* Note.update with < where the method has <=: a tie would pull.
Note_update_strict(w, n, force, remote, written) ==
    LET self == w.nts[n]
        w1 == Send(w, get_note(w.nbs[self.notebook].id, self.id))
    IN IF IsNone(remote) THEN w1
       ELSE IF force \/ Val(remote).updated_at < self.updated_at
            THEN LET w2 == Send(w1, update_note(Note_to_json(w, n)))
                 IN IF IsNone(written) THEN Raise(w2, "TypeError")
                    ELSE [w2 EXCEPT !.nts[n].updated_at = Val(written).updated_at]
            ELSE [w1 EXCEPT !.nts[n].title = Val(remote).title,
                            !.nts[n].content = Val(remote).content,
                            !.nts[n].updated_at = Val(remote).updated_at]

\* Note.update pulling the title and the timestamp but not the content.
Note_update_keeps_content(w, n, force, remote, written) ==
    LET self == w.nts[n]
        w1 == Send(w, get_note(w.nbs[self.notebook].id, self.id))
    IN IF IsNone(remote) THEN w1
       ELSE IF force \/ Val(remote).updated_at <= self.updated_at
            THEN LET w2 == Send(w1, update_note(Note_to_json(w, n)))
                 IN IF IsNone(written) THEN Raise(w2, "TypeError")
                    ELSE [w2 EXCEPT !.nts[n].updated_at = Val(written).updated_at]
            ELSE [w1 EXCEPT !.nts[n].title = Val(remote).title,
                            !.nts[n].updated_at = Val(remote).updated_at]

\* Note.update pushing when the remote copy is the newer or an equal one.
Note_update_pushes_over_newer(w, n, force, remote, written) ==
    LET self == w.nts[n]
        w1 == Send(w, get_note(w.nbs[self.notebook].id, self.id))
    IN IF IsNone(remote) THEN w1
       ELSE IF force \/ Val(remote).updated_at >= self.updated_at
            THEN LET w2 == Send(w1, update_note(Note_to_json(w, n)))
                 IN IF IsNone(written) THEN Raise(w2, "TypeError")
                    ELSE [w2 EXCEPT !.nts[n].updated_at = Val(written).updated_at]
            ELSE [w1 EXCEPT !.nts[n].title = Val(remote).title,
                            !.nts[n].content = Val(remote).content,
                            !.nts[n].updated_at = Val(remote).updated_at]

\* Note.update(force): remote is the answer to get_note and written the
\* answer to update_note, each None when the request failed.
Note_update(w, n, force, remote, written) ==
    LET self == w.nts[n]
        w1 == Send(w, get_note(w.nbs[self.notebook].id, self.id))
    IN IF IsNone(remote) THEN w1
       ELSE IF force \/ Val(remote).updated_at <= self.updated_at
            THEN LET w2 == Send(w1, update_note(Note_to_json(w, n)))
                 IN IF IsNone(written) THEN Raise(w2, "TypeError")
                    ELSE [w2 EXCEPT !.nts[n].updated_at = Val(written).updated_at]
            ELSE [w1 EXCEPT !.nts[n].title = Val(remote).title,
                            !.nts[n].content = Val(remote).content,
                            !.nts[n].updated_at = Val(remote).updated_at]

\* Note.delete(): answer is the answer to the DELETE request; delete_note
\* indexes it, which raises on None.
Note_delete(w, n, answer) ==
    LET self == w.nts[n]
        w1 == Send(w, delete_note(Note_to_json(w, n)))
    IN IF IsNone(answer) THEN Raise(w1, "TypeError")
       ELSE IF self.id \notin DOMAIN w1.nbs[self.notebook].notes
            THEN Raise(w1, "KeyError")
            ELSE Step([w1 EXCEPT !.nbs[self.notebook].notes = Remove(@, self.id)],
                      "del_note", <<w.nbs[self.notebook].id, self.id>>)

\* Note.move_to taking the note out of its notebook before the remote move
\* call, where the method calls first.
Note_move_to_removes_first(w, n, new_notebook, answer) ==
    LET self == w.nts[n]
        w1 == Step([w EXCEPT !.nbs[self.notebook].notes = Remove(@, self.id)],
                   "del_note", <<w.nbs[self.notebook].id, self.id>>)
        w2 == Send(w1, move_note(Note_to_json(w, n), w.nbs[new_notebook].id))
    IN IF self.id \notin DOMAIN w.nbs[self.notebook].notes
       THEN Raise(w, "KeyError")
       ELSE IF IsNone(answer) THEN Raise(w2, "TypeError")
       ELSE Notebook_add_note(w2, new_notebook, n)

\* Note.move_to(new_notebook): answer is the answer to the move request;
\* move_note indexes it, which raises on None.
Note_move_to(w, n, new_notebook, answer) ==
    LET self == w.nts[n]
        w1 == Send(w, move_note(Note_to_json(w, n), w.nbs[new_notebook].id))
    IN IF IsNone(answer) THEN Raise(w1, "TypeError")
       ELSE IF self.id \notin DOMAIN w1.nbs[self.notebook].notes
            THEN Raise(w1, "KeyError")
            ELSE Notebook_add_note(
                    Step([w1 EXCEPT !.nbs[self.notebook].notes = Remove(@, self.id)],
                         "del_note", <<w.nbs[self.notebook].id, self.id>>),
                    new_notebook, n)

\* Note.create(title, notebook): res is the answer to create_note.  The new
\* Note object is the method's result: the reference, 0 when it raised.
Note_create(w, title, notebook, res) ==
    LET w1 == Send(w, create_note(w.nbs[notebook].id, title))
        n == NewNoteRef(w1)
    IN IF IsNone(res) THEN [w |-> Raise(w1, "TypeError"), ref |-> 0]
       ELSE IF n = 0 THEN [w |-> Raise(w1, "HeapFull"), ref |-> 0]
       ELSE [w |-> [w1 EXCEPT !.nts = Put(@, n,
                        [id |-> Val(res).id, title |-> title, content |-> "",
                         updated_at |-> Val(res).updated_at,
                         notebook |-> notebook, tags |-> {}])],
             ref |-> n]

\* Notebook.create_note(title)
Notebook_create_note(w, nb, title, res) ==
    LET c == Note_create(w, title, nb, res)
    IN IF c.w.raised # "none" THEN c.w
       ELSE Step([c.w EXCEPT !.nbs[nb].notes = Put(@, c.w.nts[c.ref].id, c.ref)],
                 "add_note", <<w.nbs[nb].id, c.w.nts[c.ref].id>>)

RECURSIVE Notebook_download_loop(_, _, _)
\* The loop of Notebook.download over the notes of the answer: the Note is
\* made and added, then its tags are looked up in `tags' (the Paperwork's
\* mapping), which raises KeyError on an id that is no key, then added.
Notebook_download_loop(w, nb, notes_json) ==
    IF notes_json = <<>> THEN w
    ELSE LET note_json == Head(notes_json)
             n == NewNoteRef(w)
             w1 == [w EXCEPT !.nts = Put(@, n, Note_from_json(note_json, nb))]
             w2 == Notebook_add_note(w1, nb, n)
             ids == {note_json.tags[i].id : i \in 1 .. Len(note_json.tags)}
         IN IF n = 0 THEN Raise(w, "HeapFull")
            ELSE IF ~(ids \subseteq DOMAIN w2.tags) THEN Raise(w2, "KeyError")
            ELSE Notebook_download_loop(
                    Note_add_tags(w2, n, {w2.tags[t] : t \in ids}),
                    nb, Tail(notes_json))

\* Notebook.download(tags): answer is the answer to list_notebook_notes;
\* iterating None raises TypeError.
Notebook_download(w, nb, answer) ==
    LET w1 == Send(w, list_notebook_notes(w.nbs[nb].id))
    IN IF IsNone(answer) THEN Raise(w1, "TypeError")
       ELSE Notebook_download_loop(w1, nb, Val(answer))

-----------------------------------------------------------------------------
(* models.py: Paperwork.                                                   *)

\* Paperwork.create_notebook without the test of the title.
Paperwork_create_notebook_any_title(w, title, answer) ==
    LET w1 == Send(w, create_notebook(title))
        r == NewNotebookRef(w1)
    IN IF IsNone(answer) THEN Raise(w1, "TypeError")
       ELSE IF r = 0 THEN Raise(w1, "HeapFull")
       ELSE Step([w1 EXCEPT !.nbs = Put(@, r, Notebook_from_json(Val(answer))),
                            !.notebooks = Put(@, Val(answer).id, r)],
                 "set_notebook", <<Val(answer).id>>)

\* Paperwork.create_notebook(title): answer is the answer to create_notebook;
\* Notebook.from_json raises TypeError on None.
Paperwork_create_notebook(w, title, answer) ==
    IF title = "All Notes" THEN w
    ELSE LET w1 == Send(w, create_notebook(title))
             r == NewNotebookRef(w1)
         IN IF IsNone(answer) THEN Raise(w1, "TypeError")
            ELSE IF r = 0 THEN Raise(w1, "HeapFull")
            ELSE Step([w1 EXCEPT !.nbs = Put(@, r, Notebook_from_json(Val(answer))),
                                 !.notebooks = Put(@, Val(answer).id, r)],
                      "set_notebook", <<Val(answer).id>>)

RECURSIVE Paperwork_download_tags_drop_known(_, _)
\* The first loop of Paperwork.download taking a tag whose id it already
\* holds out of the mapping, where the method stores the new Tag over it.
Paperwork_download_tags_drop_known(w, tags_json) ==
    IF tags_json = <<>> THEN w
    ELSE LET json == Head(tags_json)
             t == NewTagRef(w)
         IN IF t = 0 THEN Raise(w, "HeapFull")
            ELSE IF json.id \in DOMAIN w.tags
            THEN Paperwork_download_tags_drop_known(
                    [w EXCEPT !.tags = Remove(@, json.id)], Tail(tags_json))
            ELSE Paperwork_download_tags_drop_known(
                    Step([w EXCEPT !.tgs = Put(@, t, Tag_from_json(json)),
                                   !.tags = Put(@, json.id, t)],
                         "set_tag", <<json.id>>),
                    Tail(tags_json))

RECURSIVE Paperwork_download_tags(_, _)
\* The first loop of Paperwork.download: every tag of the answer is made and
\* stored under its id.
Paperwork_download_tags(w, tags_json) ==
    IF tags_json = <<>> THEN w
    ELSE LET json == Head(tags_json)
             t == NewTagRef(w)
         IN IF t = 0 THEN Raise(w, "HeapFull")
            ELSE Paperwork_download_tags(
                    Step([w EXCEPT !.tgs = Put(@, t, Tag_from_json(json)),
                                   !.tags = Put(@, json.id, t)],
                         "set_tag", <<json.id>>),
                    Tail(tags_json))

RECURSIVE Paperwork_download_notebooks(_, _, _)
\* The second loop of Paperwork.download: every notebook of the answer is
\* made, stored under its id and downloaded.  notes[id] is the answer to the
\* request for the notes of notebook id.
Paperwork_download_notebooks(w, notebooks_json, notes) ==
    IF notebooks_json = <<>> THEN w
    ELSE LET json == Head(notebooks_json)
             r == NewNotebookRef(w)
             w1 == Step([w EXCEPT !.nbs = Put(@, r, Notebook_from_json(json)),
                                  !.notebooks = Put(@, json.id, r)],
                        "set_notebook", <<json.id>>)
             w2 == Notebook_download(w1, r, notes[json.id])
         IN IF r = 0 THEN Raise(w, "HeapFull")
            ELSE IF w2.raised # "none" THEN w2
            ELSE Paperwork_download_notebooks(w2, Tail(notebooks_json), notes)

\* Paperwork.download with its two loops in the other order: the notebooks
\* and their notes first, the tags after them.
Paperwork_download_notebooks_first(w, remote) ==
    LET w1 == Send(w, list_notebooks)
    IN IF IsNone(remote.notebooks) THEN Raise(w1, "TypeError")
       ELSE LET w2 == Paperwork_download_notebooks(w1, Val(remote.notebooks),
                                                   remote.notes)
                w3 == Send(w2, list_tags)
            IN IF w2.raised # "none" THEN w2
               ELSE IF IsNone(remote.tags) THEN Raise(w3, "TypeError")
               ELSE Paperwork_download_tags(w3, Val(remote.tags))

\* Paperwork.download(): remote holds the answers of the remote service:
\* remote.tags to list_tags, remote.notebooks to list_notebooks and
\* remote.notes[id] to list_notebook_notes(id).  Iterating None raises.
Paperwork_download(w, remote) ==
    LET w1 == Send(w, list_tags)
    IN IF IsNone(remote.tags) THEN Raise(w1, "TypeError")
       ELSE LET w2 == Paperwork_download_tags(w1, Val(remote.tags))
                w3 == Send(w2, list_notebooks)
            IN IF w2.raised # "none" THEN w2
               ELSE IF IsNone(remote.notebooks) THEN Raise(w3, "TypeError")
               ELSE Paperwork_download_notebooks(w3, Val(remote.notebooks),
                                                 remote.notes)

\* The titles of the model in the order Python compares strings in.
TitleOrder == <<"All Notes", "a", "b">>
TitleRank(title) == CHOOSE i \in 1 .. Len(TitleOrder) : TitleOrder[i] = title

\* The orders a dict of the keys S may be iterated in.  Python iterates a
\* dict in the order the keys were inserted in (before 3.7: in no specified
\* order), and the remote service lists the entities in the order it likes:
\* the order is an input of the operation that iterates.
Orders(S) ==
    {p \in [1 .. Cardinality(S) -> S] : \A x \in S : \E i \in DOMAIN p : p[i] = x}

RECURSIVE SortedByTitle(_, _)
\* sorted(list, key=lambda x: x.title) on the Note references `list': the
\* sort is stable, so among equal titles the order of the list stays.
SortedByTitle(w, list) ==
    IF list = <<>> THEN <<>>
    ELSE LET least == CHOOSE i \in DOMAIN list :
                         /\ \A j \in DOMAIN list :
                               TitleRank(w.nts[list[i]].title)
                                  <= TitleRank(w.nts[list[j]].title)
                         /\ \A j \in 1 .. i - 1 :
                               TitleRank(w.nts[list[j]].title)
                                  > TitleRank(w.nts[list[i]].title)
         IN <<list[least]>> \o
            SortedByTitle(w, [x \in 1 .. Len(list) - 1 |->
                                 IF x < least THEN list[x] ELSE list[x + 1]])

\* Notebook.get_notes(): the notes sorted by title; noteOrder is the order
\* the dict of the notes is iterated in.
Notebook_get_notes(w, nb, noteOrder) ==
    LET held == SelectSeq(noteOrder, LAMBDA i : i \in DOMAIN w.nbs[nb].notes)
    IN SortedByTitle(w, [x \in 1 .. Len(held) |-> w.nbs[nb].notes[held[x]]])

RECURSIVE Paperwork_update_notes(_, _, _)
\* The inner loop of Paperwork.update: note.update() (force is False) on
\* every note of the list; an exception ends the loop.
Paperwork_update_notes(w, list, answers) ==
    IF list = <<>> THEN w
    ELSE LET i == w.nts[Head(list)].id
             w1 == Note_update(w, Head(list), FALSE, answers.note[i],
                               answers.written[i])
         IN IF w1.raised # "none" THEN w1
            ELSE Paperwork_update_notes(w1, Tail(list), answers)

RECURSIVE Paperwork_update(_, _, _, _)
\* Paperwork.update(): for every notebook, in the order the dict is iterated
\* in, nb.update() (force is True, its default) and then note.update() on
\* nb.get_notes().  answers holds the answers of the remote service.
Paperwork_update(w, order, noteOrder, answers) ==
    IF order = <<>> THEN w
    ELSE LET nb == w.notebooks[Head(order)]
             w1 == Notebook_update(w, nb, TRUE, answers.notebook[Head(order)],
                                   answers.pushed[Head(order)])
             w2 == Paperwork_update_notes(
                      w1, Notebook_get_notes(w1, nb, noteOrder), answers)
         IN IF w2.raised # "none" THEN w2
            ELSE Paperwork_update(w2, Tail(order), noteOrder, answers)

\* A key of a lookup: a title (a str) or an id (anything else).
TitleKey(title) == [isTitle |-> TRUE, title |-> title, id |-> 0]
IdKey(id) == [isTitle |-> FALSE, title |-> "", id |-> id]

\* The outcome of a lookup: the object found (0: None), or an exception.
Found(ref) == [raised |-> "none", value |-> ref]
KeyError == [raised |-> "KeyError", value |-> 0]
FirstOr0(list) == IF list = <<>> THEN 0 ELSE list[1]

\* Paperwork.find_tag(key): order is the order self.tags is iterated in.
Paperwork_find_tag(w, key, order) ==
    IF key.isTitle
    THEN Found(FirstOr0(SelectSeq([x \in DOMAIN order |-> w.tags[order[x]]],
                                  LAMBDA t : key.title = w.tgs[t].title)))
    ELSE IF key.id \in DOMAIN w.tags THEN Found(w.tags[key.id]) ELSE KeyError

\* Paperwork.find_notebook(key): order is the order self.notebooks is
\* iterated in.
Paperwork_find_notebook(w, key, order) ==
    IF key.isTitle
    THEN Found(FirstOr0(SelectSeq([x \in DOMAIN order |-> w.notebooks[order[x]]],
                                  LAMBDA nb : key.title = w.nbs[nb].title)))
    ELSE IF key.id \in DOMAIN w.notebooks THEN Found(w.notebooks[key.id])
    ELSE KeyError

RECURSIVE AllNotes(_, _, _)
\* [note for nb in self.notebooks.values() for note in nb.notes.values()]
AllNotes(w, order, noteOrder) ==
    IF order = <<>> THEN <<>>
    ELSE LET notes == w.nbs[w.notebooks[Head(order)]].notes
             held == SelectSeq(noteOrder, LAMBDA i : i \in DOMAIN notes)
         IN [x \in DOMAIN held |-> notes[held[x]]]
               \o AllNotes(w, Tail(order), noteOrder)

\* Paperwork.get_notes(): all the notes, sorted by title.
Paperwork_get_notes(w, order, noteOrder) ==
    SortedByTitle(w, AllNotes(w, order, noteOrder))

\* Paperwork.find_note(key): the first note of get_notes() with
\* key in (note.id, note.title); None when the loop ends.
Paperwork_find_note(w, key, order, noteOrder) ==
    Found(FirstOr0(SelectSeq(Paperwork_get_notes(w, order, noteOrder),
                             LAMBDA n : IF key.isTitle
                                        THEN key.title = w.nts[n].title
                                        ELSE key.id = w.nts[n].id)))

\* fuzzy_find with >= where the method has >: the last of the best.
fuzzy_find_or_equal(ratio, choices) ==
    LET Loop[n \in 0 .. Len(choices)] ==
           IF n = 0 THEN [val |-> 0, choice |-> 0]
           ELSE IF ratio[choices[n]] >= Loop[n - 1].val
                THEN [val |-> ratio[choices[n]], choice |-> n]
                ELSE Loop[n - 1]
    IN Loop[Len(choices)].choice

\* Paperwork.fuzzy_find(title, choices): choices are the titles of the
\* candidates, in the order they are iterated in; ratio[t] is what
\* fuzz.ratio(t, title) answers (the library is not part of the program).
\* The result is the place of the candidate in choices, 0 for None.
fuzzy_find(ratio, choices) ==
    LET Loop[n \in 0 .. Len(choices)] ==
           IF n = 0 THEN [val |-> 0, choice |-> 0]
           ELSE IF ratio[choices[n]] > Loop[n - 1].val
                THEN [val |-> ratio[choices[n]], choice |-> n]
                ELSE Loop[n - 1]
    IN Loop[Len(choices)].choice

-----------------------------------------------------------------------------
(* The answers of the remote service: the inputs of the operations.        *)

TagJson(t) == [id |-> t, title |-> "a", visibility |-> 0]
NotebookJson(k, title, time) ==
    [id |-> k, title |-> title, type |-> 0, updated_at |-> time]
NoteJson(i, k, title, content, time, ts) ==
    [id |-> i, title |-> title, content |-> content, updated_at |-> time,
     notebook_id |-> k, tags |-> [x \in 1 .. Len(ts) |-> TagJson(ts[x])]]

\* The answer to a request whose answer is only indexed (move, delete).
Done == Some(<<"done">>)

\* The request of a download that fails.
NoFailure == [what |-> "none", id |-> 0]
FailTags == [what |-> "tags", id |-> 0]
FailNotebooks == [what |-> "notebooks", id |-> 0]
FailNotes(k) == [what |-> "notes", id |-> k]
Failures == {NoFailure, FailTags, FailNotebooks} \cup {FailNotes(k) : k \in NotebookIds}

\* One state of the remote service as download sees it: the tags T, the
\* notebooks K with the fields g[k], place[i] the notebook of note i (0: no
\* such note), wire[i] the tag ids note i names, f[i] the fields of note i;
\* `fail' is the one request that fails, if any.
RemoteState(T, K, g, place, wire, f, fail) ==
    [tags |-> IF fail = FailTags THEN None
              ELSE Some([x \in 1 .. Cardinality(T) |-> TagJson(SeqOf(T)[x])]),
     notebooks |-> IF fail = FailNotebooks THEN None
                   ELSE Some([x \in 1 .. Cardinality(K) |->
                                NotebookJson(SeqOf(K)[x], g[SeqOf(K)[x]].title,
                                             g[SeqOf(K)[x]].time)]),
     notes |-> [k \in NotebookIds |->
                  IF fail = FailNotes(k) THEN None
                  ELSE LET here == SeqOf({i \in DOMAIN place : place[i] = k})
                       IN Some([x \in 1 .. Len(here) |->
                                  NoteJson(here[x], k, f[here[x]].title,
                                           f[here[x]].content, f[here[x]].time,
                                           wire[here[x]])])]]

PlainNotebook == [title |-> "a", time |-> 1]
PlainNote == [title |-> "a", content |-> "x", time |-> 1]

\* The remote states of the specification of the graph.  Notebook 1 is always
\* there and notebook 2 may be gone; the note is in either or nowhere, with
\* tag 1 or with no tag; tag 1 is there or gone (the note may still name it);
\* any one request may fail.  The fields are fixed.
GraphRemotes ==
    {RemoteState(T, K, [k \in NotebookIds |-> PlainNotebook], place, wire,
                 [i \in NoteIds |-> PlainNote], fail) :
        T \in SUBSET TagIds, K \in {{1}, {1, 2}},
        place \in [NoteIds -> NotebookIds \cup {0}],
        wire \in [NoteIds -> {<<>>, <<1>>}],
        fail \in Failures}

\* The remote states of the specification of the updates: notebook 1 with
\* the note in it, tagged 1, no request failing; the fields vary.
SyncRemotes ==
    {RemoteState({1}, {1}, [k \in NotebookIds |-> [title |-> t1, time |-> 1]],
                 [i \in NoteIds |-> 1], [i \in NoteIds |-> <<1>>],
                 [i \in NoteIds |-> [title |-> t2, content |-> c, time |-> u]],
                 NoFailure) :
        t1 \in Titles, t2 \in Titles, c \in Contents, u \in Times}

\* The answers to get_notebook(k), to get_note for note i of notebook k, and
\* to a write (update_notebook, update_note), of which the timestamp counts.
NotebookAnswers(k) ==
    {None} \cup {Some(NotebookJson(k, t, u)) : t \in Titles, u \in Times}
NoteAnswers(k, i) ==
    {None} \cup {Some(NoteJson(i, k, t, c, u, <<1>>)) :
                    t \in Titles, c \in Contents, u \in Times}
WriteAnswers == {None} \cup {Some([updated_at |-> u]) : u \in Times}

-----------------------------------------------------------------------------
(* The operations.                                                         *)

IndexOf(seq, x) ==
    IF \E i \in 1 .. Len(seq) : seq[i] = x
    THEN CHOOSE i \in 1 .. Len(seq) : seq[i] = x
    ELSE 0
Elems(seq) == {seq[i] : i \in 1 .. Len(seq)}
Fresh(seq, xs) == SelectSeq(xs, LAMBDA x : x \notin Elems(seq))

RECURSIVE Census(_, _, _, _)
\* The reachable Notebook and Note objects in the order a walk from the
\* Paperwork object meets them: the notebooks by id, then from the i-th
\* notebook met its notes by id, and from each note the notebook it refers to.
Census(w, nbSeq, ntSeq, i) ==
    IF i > Len(nbSeq) THEN [nb |-> nbSeq, nt |-> ntSeq]
    ELSE LET notes == w.nbs[nbSeq[i]].notes
             here == [x \in 1 .. Cardinality(DOMAIN notes) |->
                        notes[SeqOf(DOMAIN notes)[x]]]
             ntSeq2 == ntSeq \o Fresh(ntSeq, here)
             owners == [x \in 1 .. Len(here) |-> w.nts[here[x]].notebook]
             nbSeq2 == nbSeq \o Fresh(nbSeq, owners)
         IN Census(w, nbSeq2, ntSeq2, i + 1)

RECURSIVE TagCensus(_, _, _)
\* The reachable Tag objects: those of the Paperwork's mapping by id, then
\* those of each note of ntSeq by id.
TagCensus(w, tgSeq, ntSeq) ==
    IF ntSeq = <<>> THEN tgSeq
    ELSE LET mine == w.nts[Head(ntSeq)].tags \ Elems(tgSeq)
             byId == SeqOf({w.tgs[t].id : t \in mine})
             more == [x \in 1 .. Len(byId) |->
                        CHOOSE t \in mine : w.tgs[t].id = byId[x]]
         IN TagCensus(w, tgSeq \o more, Tail(ntSeq))

\* The names the reachable objects of w are stored under: an object's
\* reference is its place in the census, so that the stored heap does not
\* depend on the addresses the objects happened to get.  A reference of an
\* object that is gone is 0.
Names(w) ==
    LET roots == [x \in 1 .. Cardinality(DOMAIN w.notebooks) |->
                    w.notebooks[SeqOf(DOMAIN w.notebooks)[x]]]
        c == Census(w, roots, <<>>, 1)
        troots == [x \in 1 .. Cardinality(DOMAIN w.tags) |->
                     w.tags[SeqOf(DOMAIN w.tags)[x]]]
        t == TagCensus(w, troots, c.nt)
    IN [nbSeq |-> c.nb, ntSeq |-> c.nt, tgSeq |-> t,
        nb |-> [r \in NbRefs \cup {0} |-> IndexOf(c.nb, r)],
        nt |-> [r \in NoteRefs \cup {0} |-> IndexOf(c.nt, r)],
        tg |-> [r \in TagRefs \cup {0} |-> IndexOf(t, r)]]

\* The operation ends in world w: its collections, the objects still
\* reachable, the requests it sent and the exception it raised are the next
\* state.  Op(m) is the record of the operation, its references named by m.
CommitLocal(end, Op(_)) ==
    \E w \in {end} : \E m \in {Names(w)} :
       /\ w.raised # "HeapFull"
       /\ notebooks' = [k \in DOMAIN w.notebooks |-> m.nb[w.notebooks[k]]]
       /\ tags' = [t \in DOMAIN w.tags |-> m.tg[w.tags[t]]]
       /\ nbs' = [x \in 1 .. Len(m.nbSeq) |->
                    [w.nbs[m.nbSeq[x]] EXCEPT
                        !.notes = [i \in DOMAIN @ |-> m.nt[@[i]]]]]
       /\ nts' = [x \in 1 .. Len(m.ntSeq) |->
                    [w.nts[m.ntSeq[x]] EXCEPT
                        !.notebook = m.nb[@],
                        !.tags = {m.tg[t] : t \in @}]]
       /\ tgs' = [x \in 1 .. Len(m.tgSeq) |-> w.tgs[m.tgSeq[x]]]
       /\ trace' = w.trace
       /\ raised' = w.raised
       /\ op' = Op(m)

\* An operation that runs to its end with nothing of another caller or of
\* the remote service in between.
Commit(end, Op(_)) == CommitLocal(end, Op) /\ UNCHANGED <<server, pending>>

\* The notes a caller reaches from the Paperwork object: <<k, i>> is the note
\* under id i in the notebook under id k.
Reachable == {<<k, i>> \in NotebookIds \X NoteIds :
                k \in DOMAIN notebooks /\ i \in DOMAIN nbs[notebooks[k]].notes}
NoteAt(p) == nbs[notebooks[p[1]]].notes[p[2]]

\* Ids the remote service has handed out and the mirror still knows: a new
\* entity gets none of them.
KnownNotebookIds == DOMAIN notebooks \cup {nbs[r].id : r \in DOMAIN nbs}
KnownNoteIds == {nts[n].id : n \in DOMAIN nts}

\* again: the operation before was a download too, with the same answers.
Download(remote) ==
    Commit(Paperwork_download(World, remote),
           LAMBDA m : [name |-> "download", remote |-> remote,
                       again |-> op.name = "download" /\ op.remote = remote])

CreateNotebook(title, answer) ==
    Commit(Paperwork_create_notebook(World, title, answer),
           LAMBDA m : [name |-> "create_notebook", title |-> title,
                       answer |-> answer,
                       before |-> [k \in DOMAIN notebooks |-> m.nb[notebooks[k]]]])

CreateNote(k, title, res) ==
    /\ k \in DOMAIN notebooks
    /\ Commit(Notebook_create_note(World, notebooks[k], title, res),
              LAMBDA m : [name |-> "create_note", notebook |-> m.nb[notebooks[k]],
                          res |-> res])

AddNote(k, p) ==
    /\ k \in DOMAIN notebooks
    /\ p \in Reachable
    /\ Commit(Notebook_add_note(World, notebooks[k], NoteAt(p)),
              LAMBDA m : [name |-> "add_note", notebook |-> m.nb[notebooks[k]],
                          note |-> m.nt[NoteAt(p)]])

MoveTo(p, k, answer) ==
    /\ p \in Reachable
    /\ k \in DOMAIN notebooks
    /\ Commit(Note_move_to(World, NoteAt(p), notebooks[k], answer),
              LAMBDA m : [name |-> "move_to", note |-> m.nt[NoteAt(p)],
                          id |-> p[2], from |-> m.nb[notebooks[p[1]]],
                          to |-> m.nb[notebooks[k]],
                          owner |-> m.nb[nts[NoteAt(p)].notebook],
                          answer |-> answer])

DeleteNote(p, answer) ==
    /\ p \in Reachable
    /\ Commit(Note_delete(World, NoteAt(p), answer),
              LAMBDA m : [name |-> "delete", note |-> m.nt[NoteAt(p)],
                          id |-> p[2], from |-> m.nb[notebooks[p[1]]],
                          answer |-> answer])

DeleteNotebook(k, answer) ==
    /\ k \in DOMAIN notebooks
    /\ Commit(Notebook_delete(World, notebooks[k], answer),
              LAMBDA m : [name |-> "Notebook.delete", id |-> k,
                          self |-> m.nb[notebooks[k]], answer |-> answer])

UpdateNotebook(k, force, remote, written) ==
    /\ k \in DOMAIN notebooks
    /\ Commit(Notebook_update(World, notebooks[k], force, remote, written),
              LAMBDA m : [name |-> "Notebook.update", self |-> m.nb[notebooks[k]],
                          before |-> nbs[notebooks[k]], force |-> force,
                          remote |-> remote, written |-> written])

UpdateNote(p, force, remote, written) ==
    /\ p \in Reachable
    /\ Commit(Note_update(World, NoteAt(p), force, remote, written),
              LAMBDA m : [name |-> "Note.update", self |-> m.nt[NoteAt(p)],
                          before |-> nts[NoteAt(p)], force |-> force,
                          remote |-> remote, written |-> written])

\* The callers that may be inside Note.update() at the same time, and the
\* place of the note they update.
Callers == {1, 2}
RacePlace == <<1, 1>>

\* What the remote service answers to the requests of a download and to
\* get_note: notebook 1 holding note 1 as the service has it now.
ServerNote == NoteJson(1, 1, server.title, server.content, server.updated_at, <<>>)
ServerRemote ==
    RemoteState({}, {1}, [k \in NotebookIds |-> PlainNotebook],
                [i \in NoteIds |-> 1], [i \in NoteIds |-> <<>>],
                [i \in NoteIds |-> [title |-> server.title, content |-> server.content,
                                    time |-> server.updated_at]],
                NoFailure)

\* download() answered by the remote service as it is now, no update()
\* being under way.
RaceDownload ==
    /\ \A c \in Callers : IsNone(pending[c])
    /\ CommitLocal(Paperwork_download(World, ServerRemote),
                   LAMBDA m : [name |-> "download", remote |-> ServerRemote,
                               again |-> FALSE])
    /\ UNCHANGED <<server, pending>>

\* Caller c enters Note.update(force) on the note: get_note is sent and
\* answered with the service's copy, and the caller holds the answer.
Fetch(c, force) ==
    /\ RacePlace \in Reachable
    /\ IsNone(pending[c])
    /\ pending' = [pending EXCEPT ![c] =
                      Some([force |-> force, remote |-> Some(ServerNote),
                            local |-> nts[NoteAt(RacePlace)].updated_at])]
    /\ UNCHANGED <<notebooks, tags, nbs, nts, tgs, trace, raised, op, server>>

\* Caller c goes on after its fetch: the comparison with the note as it is
\* now and, if it pushes, update_note, which the service stores under the
\* next timestamp and answers with it.
Finish(c) ==
    /\ ~IsNone(pending[c])
    /\ LET call == Val(pending[c])
           written == Some([updated_at |-> server.updated_at + 1])
           end == Note_update(World, NoteAt(RacePlace), call.force, call.remote, written)
           pushed == RequestsTo(Writes(end.trace), "note")
           stored == IF pushed = <<>> THEN server
                     ELSE [title |-> Val(pushed[1].data).title,
                           content |-> Val(pushed[1].data).content,
                           updated_at |-> server.updated_at + 1]
       IN /\ pushed # <<>> => server.updated_at < MaxServerTime
          /\ CommitLocal(end,
                LAMBDA m : [name |-> "Note.update", self |-> m.nt[NoteAt(RacePlace)],
                            before |-> nts[NoteAt(RacePlace)], force |-> call.force,
                            remote |-> call.remote, written |-> written,
                            fetched_with |-> call.local, server |-> server,
                            stored |-> stored, caller |-> c])
          /\ server' = stored
          /\ pending' = [pending EXCEPT ![c] = None]

\* Another writer changes the service's copy of the note.
OtherWriter(content) ==
    /\ server.updated_at < MaxServerTime
    /\ server' = [server EXCEPT !.content = content, !.updated_at = @ + 1]
    /\ UNCHANGED <<notebooks, tags, nbs, nts, tgs, trace, raised, op, pending>>

\* Paperwork(user, passwd, host): empty collections.  (authenticated, which
\* basic_authentication answers, is read by no method and is left out.)
Init ==
    /\ notebooks = EmptyMap
    /\ tags = EmptyMap
    /\ nbs = EmptyMap
    /\ nts = EmptyMap
    /\ tgs = EmptyMap
    /\ trace = <<>>
    /\ raised = "none"
    /\ op = [name |-> "init"]
    /\ server = [title |-> "a", content |-> "x", updated_at |-> 1]
    /\ pending = [c \in Callers |-> None]

DoDownload == \E remote \in GraphRemotes : Download(remote)

DoCreateNotebook ==
    \E title \in {"a", "All Notes"} :
       \E answer \in {None} \cup {Some(NotebookJson(k, title, 1)) :
                                    k \in NotebookIds \ KnownNotebookIds} :
          CreateNotebook(title, answer)

DoCreateNote ==
    \E k \in NotebookIds :
       \E res \in {None} \cup {Some([id |-> i, updated_at |-> 1]) :
                                 i \in NoteIds \ KnownNoteIds} :
          CreateNote(k, "a", res)

DoAddNote == \E k \in NotebookIds, p \in NotebookIds \X NoteIds : AddNote(k, p)

DoMoveTo ==
    \E p \in NotebookIds \X NoteIds, k \in NotebookIds, answer \in {None, Done} :
       MoveTo(p, k, answer)

DoDeleteNote ==
    \E p \in NotebookIds \X NoteIds, answer \in {None, Done} : DeleteNote(p, answer)

DoDeleteNotebook ==
    \E k \in NotebookIds, answer \in {None, Done} : DeleteNotebook(k, answer)

DoSyncDownload == \E remote \in SyncRemotes : Download(remote)

DoUpdateNotebook ==
    \E k \in NotebookIds, force \in BOOLEAN :
       \E remote \in NotebookAnswers(k), written \in WriteAnswers :
          UpdateNotebook(k, force, remote, written)

DoUpdateNote ==
    \E p \in NotebookIds \X NoteIds, force \in BOOLEAN :
       \E remote \in NoteAnswers(p[1], p[2]), written \in WriteAnswers :
          UpdateNote(p, force, remote, written)

\* The specification of the graph: downloads against any remote state, and
\* every operation that changes the collections.
Next ==
    \/ DoDownload
    \/ DoCreateNotebook
    \/ DoCreateNote
    \/ DoAddNote
    \/ DoMoveTo
    \/ DoDeleteNote

Spec == Init /\ [][Next]_vars

\* The operations of a caller that leaves the collections to their owners:
\* the same without add_note called on a note that a notebook already holds,
\* and with Notebook.delete.
NextSession ==
    \/ DoDownload
    \/ DoCreateNotebook
    \/ DoCreateNote
    \/ DoMoveTo
    \/ DoDeleteNote
    \/ DoDeleteNotebook

SpecSession == Init /\ [][NextSession]_vars

\* The specification of the updates: one notebook with one note, every
\* field and every answer of the remote service varying.
NextSync ==
    \/ DoSyncDownload
    \/ DoUpdateNotebook
    \/ DoUpdateNote

SpecSync == Init /\ [][NextSync]_vars

\* The notes of the specification of the traversal.
TraversalNoteIds == {1, 2}

\* The remote states of the specification of the traversal: two notebooks
\* with different titles, two notes with different titles or the same, both
\* in notebook 1 or one in each; no tags, no request failing.
TraversalRemotes ==
    {RemoteState({}, {1, 2}, [k \in NotebookIds |-> [title |-> g[k], time |-> 1]],
                 place, [i \in TraversalNoteIds |-> <<>>],
                 [i \in TraversalNoteIds |->
                     [title |-> f[i], content |-> "x", time |-> 1]],
                 NoFailure) :
        g \in {<<"a", "b">>, <<"b", "a">>},
        f \in {<<"b", "a">>, <<"a", "a">>},
        place \in {<<1, 1>>, <<1, 2>>}}

\* The one request of a traversal that fails, if any: a fetch or a push, of
\* notebook or note id.
TraversalFaults ==
    {[what |-> "none", kind |-> "none", id |-> 0]} \cup
    {[what |-> x, kind |-> y, id |-> z] :
        x \in {"fetch", "push"}, y \in {"notebook"}, z \in NotebookIds} \cup
    {[what |-> x, kind |-> y, id |-> z] :
        x \in {"fetch", "push"}, y \in {"note"}, z \in TraversalNoteIds}

\* The answers a traversal gets: every notebook's remote copy is newer than
\* the local one (their updated_at is a server's, the local one is ''); the
\* remote copies of the notes in `newer' have the latest timestamp and the
\* others the earliest; the request `fault' fails.
TraversalAnswers(newer, fault) ==
    [notebook |-> [k \in NotebookIds |->
                     IF fault = [what |-> "fetch", kind |-> "notebook", id |-> k]
                     THEN None ELSE Some(NotebookJson(k, "a", 1))],
     pushed |-> [k \in NotebookIds |->
                     IF fault = [what |-> "push", kind |-> "notebook", id |-> k]
                     THEN None ELSE Some([updated_at |-> 1])],
     note |-> [i \in TraversalNoteIds |->
                     IF fault = [what |-> "fetch", kind |-> "note", id |-> i]
                     THEN None
                     ELSE Some([id |-> i, title |-> "a", content |-> "y",
                                updated_at |-> IF i \in newer THEN MaxTime ELSE 1])],
     written |-> [i \in TraversalNoteIds |->
                     IF fault = [what |-> "push", kind |-> "note", id |-> i]
                     THEN None ELSE Some([updated_at |-> 1])]]

\* The notebooks that hold a note under id i, and the title of that note.
HoldersOf(i) == {k \in DOMAIN notebooks : i \in DOMAIN nbs[notebooks[k]].notes}
TitleOfNote(i) ==
    nts[nbs[notebooks[CHOOSE k \in HoldersOf(i) : TRUE]].notes[i]].title

\* Paperwork.update().  before: the updated_at of every notebook when the
\* traversal began; titles: the title of every note then.
Update(order, noteOrder, answers) ==
    Commit(Paperwork_update(World, order, noteOrder, answers),
           LAMBDA m : [name |-> "update", order |-> order, noteOrder |-> noteOrder,
                       answers |-> answers,
                       before |-> [k \in DOMAIN notebooks |->
                                      nbs[notebooks[k]].updated_at],
                       titles |-> [i \in {x \in TraversalNoteIds : HoldersOf(x) # {}}
                                      |-> TitleOfNote(i)]])

DoTraversalDownload == \E remote \in TraversalRemotes : Download(remote)

DoUpdate ==
    \E order \in Orders(DOMAIN notebooks), noteOrder \in Orders(TraversalNoteIds) :
       \E newer \in SUBSET TraversalNoteIds, fault \in TraversalFaults :
          Update(order, noteOrder, TraversalAnswers(newer, fault))

\* The specification of the traversal: downloads of two notebooks and two
\* notes, and Paperwork.update() with any one request failing.
NextUpdate ==
    \/ DoTraversalDownload
    \/ DoUpdate

SpecUpdate == Init /\ [][NextUpdate]_vars

\* What the transport does with a request: it raises (no connection, a
\* status that is no 2xx, a body that is no envelope), or it answers an
\* envelope with success False, or one with success True and a response.
\* The response is a list of one entity, the entity a pair of fields.
Outcomes ==
    {[raises |-> TRUE, success |-> FALSE, response |-> <<>>],
     [raises |-> FALSE, success |-> FALSE, response |-> <<<<"r", "s">>>>],
     [raises |-> FALSE, success |-> TRUE, response |-> <<<<"r", "s">>>>]}

\* A caller calls one operation of the wrapper.
ApiCall(name, k, i, k2, title, outcome) ==
    LET returned == api_returns(name, request_returns(outcome))
    IN /\ trace' = <<api_request(name, k, i, k2, title)>>
       /\ raised' = returned.raised
       /\ op' = [name |-> "api", call |-> name, outcome |-> outcome,
                 result |-> returned.value, notebook_id |-> k, id |-> i,
                 other |-> k2, keyword |-> title]
       /\ UNCHANGED <<notebooks, tags, nbs, nts, tgs, server, pending>>

\* api.upload_attachment(note, attachment): the body is `pass'.
UploadAttachment(k, i) ==
    /\ trace' = <<>>
    /\ raised' = "none"
    /\ op' = [name |-> "upload_attachment", result |-> None,
              notebook_id |-> k, id |-> i]
    /\ UNCHANGED <<notebooks, tags, nbs, nts, tgs, server, pending>>

DoApiCall ==
    \E name \in ApiNames, k \in NotebookIds, i \in NoteIds, k2 \in NotebookIds :
       \E title \in Titles \cup {""}, outcome \in Outcomes :
          ApiCall(name, k, i, k2, title, outcome)

DoUploadAttachment == \E k \in NotebookIds, i \in NoteIds : UploadAttachment(k, i)

DoFetch == \E c \in Callers, force \in BOOLEAN : Fetch(c, force)
DoFinish == \E c \in Callers : Finish(c)
DoOtherWriter == \E content \in Contents : OtherWriter(content)

\* The specification of the race: callers inside Note.update() of one note
\* while another writer changes the remote copy.
NextRace == RaceDownload \/ DoFetch \/ DoFinish \/ DoOtherWriter

SpecRace == Init /\ [][NextRace]_vars

\* The specification of the wrapper: its operations called one after another.
NextApi == DoApiCall \/ DoUploadAttachment

SpecApi == Init /\ [][NextApi]_vars

\* The remote states of the specification of the lookups: tag 1, notebook 1
\* ("a") with note 1 ("a") and maybe notebook 2 ("b"); nothing fails.
LookupRemotes ==
    {RemoteState({1}, K, <<[title |-> "a", time |-> 1], [title |-> "b", time |-> 1]>>,
                 [i \in NoteIds |-> 1], [i \in NoteIds |-> <<1>>],
                 [i \in NoteIds |-> PlainNote], NoFailure) :
        K \in {{1}, {1, 2}}}

LookupKeys == {TitleKey(t) : t \in Titles} \cup {IdKey(k) : k \in NotebookIds}

\* find_tag(key), find_notebook(key), find_note(key): kind says which.
Find(kind, key, order, tagOrder, noteOrder) ==
    LET found == CASE kind = "tag" -> Paperwork_find_tag(World, key, tagOrder)
                   [] kind = "notebook" -> Paperwork_find_notebook(World, key, order)
                   [] kind = "note" ->
                         Paperwork_find_note(World, key, order, noteOrder)
    IN /\ trace' = <<>>
       /\ raised' = found.raised
       /\ op' = [name |-> "find", kind |-> kind, key |-> key,
                 result |-> found.value]
       /\ UNCHANGED <<notebooks, tags, nbs, nts, tgs, server, pending>>

\* fuzzy_find(title, choices)
FuzzyFind(ratio, choices) ==
    /\ trace' = <<>>
    /\ raised' = "none"
    /\ op' = [name |-> "fuzzy_find", ratio |-> ratio, choices |-> choices,
              result |-> fuzzy_find(ratio, choices)]
    /\ UNCHANGED <<notebooks, tags, nbs, nts, tgs, server, pending>>

DoLookupDownload == \E remote \in LookupRemotes : Download(remote)

DoFind ==
    \E kind \in {"tag", "notebook", "note"}, key \in LookupKeys :
       \E order \in Orders(DOMAIN notebooks), tagOrder \in Orders(DOMAIN tags),
          noteOrder \in Orders(NoteIds) :
          Find(kind, key, order, tagOrder, noteOrder)

DoFuzzyFind ==
    \E ratio \in [Titles -> 0 .. MaxScore], n \in 0 .. MaxChoices :
       \E choices \in [1 .. n -> Titles] : FuzzyFind(ratio, choices)

\* The specification of the lookups.
NextLookup ==
    \/ DoLookupDownload
    \/ DoFind
    \/ DoFuzzyFind

SpecLookup == Init /\ [][NextLookup]_vars

-----------------------------------------------------------------------------
(* The claims.                                                             *)

Pushes(keyword) ==
    Len(SelectSeq(trace, LAMBDA e : e.kind = "request" /\ e.method = "PUT"
                                     /\ e.key = keyword))
IsNoteUpdate == op.name = "Note.update"
IsNotebookUpdate == op.name = "Notebook.update"
RemoteThere == ~IsNone(op.remote)

\* C1: Note.update(force) on a note whose remote copy exists sends exactly one
\* update_note request if force is set or the remote updated_at is <= the
\* local one, and none otherwise; with equal timestamps and force unset the
\* note is pushed and its title and content are not overwritten.
C1_NotePushIffForceOrNotNewer ==
    (IsNoteUpdate /\ RemoteThere) =>
        /\ Pushes("note") =
              (IF op.force \/ Val(op.remote).updated_at <= op.before.updated_at
               THEN 1 ELSE 0)
        /\ (~op.force /\ Val(op.remote).updated_at = op.before.updated_at) =>
              /\ Pushes("note") = 1
              /\ nts[op.self].title = op.before.title
              /\ nts[op.self].content = op.before.content

C1_Witness ==
    /\ IsNoteUpdate /\ RemoteThere /\ ~op.force
    /\ Val(op.remote).updated_at = op.before.updated_at
    /\ Val(op.remote).title # op.before.title
    /\ Pushes("note") = 1
    /\ raised = "none"

\* C2: Notebook.update(force=False) on a notebook whose remote copy exists
\* sends an update_notebook request if and only if the remote updated_at is
\* strictly below the local one; with equal timestamps it sends none and takes
\* the remote title and updated_at.
C2_NotebookPushIffStrictlyOlder ==
    (IsNotebookUpdate /\ RemoteThere /\ ~op.force) =>
        /\ Pushes("notebook") =
              (IF Val(op.remote).updated_at < op.before.updated_at THEN 1 ELSE 0)
        /\ Val(op.remote).updated_at = op.before.updated_at =>
              /\ Writes(trace) = <<>>
              /\ nbs[op.self].title = Val(op.remote).title
              /\ nbs[op.self].updated_at = Val(op.remote).updated_at

C2_Witness ==
    /\ IsNotebookUpdate /\ RemoteThere /\ ~op.force
    /\ Val(op.remote).updated_at = op.before.updated_at
    /\ Val(op.remote).title # op.before.title
    /\ nbs[op.self].title = Val(op.remote).title
    /\ Writes(trace) = <<>>

C4_PushTakesServerTime ==
    ((IsNoteUpdate \/ IsNotebookUpdate) /\ RemoteThere /\ ~IsNone(op.written)) =>
        /\ (IsNoteUpdate /\ Pushes("note") = 1) =>
              nts[op.self].updated_at = Val(op.written).updated_at
        /\ (IsNotebookUpdate /\ Pushes("notebook") = 1) =>
              nbs[op.self].updated_at = Val(op.written).updated_at

\* C5: when update() pulls (force unset, the remote copy strictly newer), the
\* local title, content (of a Note) and updated_at are those of the fetched
\* copy, nothing is written to the remote, and the id, the owner and the tags
\* of a Note (the id, the type and the notes of a Notebook) are unchanged.
C5_PullOverwritesFieldsOnly ==
    ((IsNoteUpdate \/ IsNotebookUpdate) /\ RemoteThere /\ ~op.force
        /\ Val(op.remote).updated_at > op.before.updated_at) =>
        /\ Writes(trace) = <<>>
        /\ raised = "none"
        /\ IsNoteUpdate =>
              nts[op.self] = [op.before EXCEPT
                                 !.title = Val(op.remote).title,
                                 !.content = Val(op.remote).content,
                                 !.updated_at = Val(op.remote).updated_at]
        /\ IsNotebookUpdate =>
              nbs[op.self] = [op.before EXCEPT
                                 !.title = Val(op.remote).title,
                                 !.updated_at = Val(op.remote).updated_at]

C5_Witness ==
    /\ IsNoteUpdate /\ RemoteThere /\ ~op.force
    /\ Val(op.remote).updated_at > op.before.updated_at
    /\ Val(op.remote).title # op.before.title
    /\ Val(op.remote).content # op.before.content
    /\ nts[op.self].content = Val(op.remote).content
    /\ nts[op.self].tags # {}

IsRequest(e, keyword) == e.kind = "request" /\ e.key = keyword
IsStep(e, what) == e.kind = "local" /\ e.method = what
Holders(i) == {k \in DOMAIN notebooks : i \in DOMAIN nbs[notebooks[k]].notes}

\* C6: move_to of note n from notebook A to another notebook B, the move
\* request answered, leaves A.notes without n.id and B.notes with n.id mapped
\* to the same Note object, and sends exactly one move request.
C6_MoveTakesNoteFromAToB ==
    (op.name = "move_to" /\ ~IsNone(op.answer) /\ op.from # op.to) =>
        /\ op.id \notin DOMAIN nbs[op.from].notes
        /\ op.id \in DOMAIN nbs[op.to].notes
        /\ nbs[op.to].notes[op.id] = op.note
        /\ Len(RequestsTo(trace, "move")) = 1

\* C7: in every state, whatever downloads, create_note, move_to and delete
\* came before, each note id is in the notes of at most one Notebook of the
\* Paperwork object.
C7_NoteInOneNotebook == \A i \in NoteIds : Cardinality(Holders(i)) <= 1

\* C8: create_notebook("All Notes") sends no request and leaves the notebooks
\* as they were; with another title it sends exactly one create request and,
\* when that is answered, stores a new Notebook made from the answer under the
\* id the server gave, the other notebooks staying.
C8_CreateNotebookButAllNotes ==
    op.name = "create_notebook" =>
        IF op.title = "All Notes"
        THEN trace = <<>> /\ notebooks = op.before
        ELSE /\ Requests(trace) = <<create_notebook(op.title)>>
             /\ IF IsNone(op.answer)
                THEN notebooks = op.before
                ELSE /\ DOMAIN notebooks = DOMAIN op.before \cup {Val(op.answer).id}
                     /\ \A k \in DOMAIN op.before \ {Val(op.answer).id} :
                           notebooks[k] = op.before[k]
                     /\ notebooks[Val(op.answer).id] \notin Range(op.before)
                     /\ nbs[notebooks[Val(op.answer).id]] =
                           Notebook_from_json(Val(op.answer))

C8_Witness ==
    /\ op.name = "create_notebook"
    /\ op.title = "All Notes"
    /\ notebooks # EmptyMap
    /\ notebooks = op.before
    /\ trace = <<>>

\* C9: download() asks for the tags first and stores every tag of the answer
\* before it asks for the notebooks; it asks for a notebook's notes only after
\* it asked for the notebooks; it adds tags to a note only after every tag
\* was stored.
C9_DownloadTagsThenNotebooksThenNotes ==
    op.name = "download" =>
        /\ trace # <<>> /\ trace[1] = list_tags
        /\ Len(RequestsTo(trace, "tags")) = 1
        /\ Len(RequestsTo(trace, "notebooks")) <= 1
        /\ \A i \in DOMAIN trace, j \in DOMAIN trace :
              /\ (IsRequest(trace[i], "tags") /\ IsStep(trace[j], "set_tag")) => i < j
              /\ (IsStep(trace[i], "set_tag") /\ IsRequest(trace[j], "notebooks")) => i < j
              /\ (IsRequest(trace[i], "notebooks") /\ IsRequest(trace[j], "notes")) => i < j
              /\ (IsStep(trace[i], "set_tag") /\ IsStep(trace[j], "add_tags")) => i < j
        /\ (\E j \in DOMAIN trace : IsRequest(trace[j], "notebooks")) =>
              {trace[i].args[1] : i \in {x \in DOMAIN trace : IsStep(trace[x], "set_tag")}}
                 = {Val(op.remote.tags)[x].id : x \in 1 .. Len(Val(op.remote.tags))}
        /\ \A j \in DOMAIN trace :
              (IsRequest(trace[j], "notes") \/ IsStep(trace[j], "add_tags")) =>
                 \E i \in 1 .. j : IsRequest(trace[i], "notebooks")

C9_Witness ==
    /\ op.name = "download"
    /\ raised = "none"
    /\ Len(RequestsTo(trace, "notes")) = 2
    /\ \E i \in DOMAIN trace, j \in DOMAIN trace :
          /\ IsStep(trace[i], "set_tag")
          /\ IsStep(trace[j], "add_tags")
          /\ trace[j].args[2] = {1}
          /\ i < j

\* C10: after download() every Tag in the tags of a Note of the Paperwork
\* object is the Tag object its mapping holds under that id, and every note
\* the download fetched carries every tag its wire form names: a tag id that
\* is no key of the mapping makes download raise KeyError.
C10_NoteTagsAreTheMappedTags ==
    (op.name = "download" /\ raised = "none") =>
        /\ \A k \in DOMAIN notebooks : \A i \in DOMAIN nbs[notebooks[k]].notes :
              \A t \in nts[nbs[notebooks[k]].notes[i]].tags :
                 /\ tgs[t].id \in DOMAIN tags
                 /\ tags[tgs[t].id] = t
        /\ \A x \in 1 .. Len(Val(op.remote.notebooks)) :
              LET k == Val(op.remote.notebooks)[x].id
                  listed == Val(op.remote.notes[k])
              IN \A y \in 1 .. Len(listed) :
                    LET wired == {listed[y].tags[z].id : z \in 1 .. Len(listed[y].tags)}
                        n == nbs[notebooks[k]].notes[listed[y].id]
                    IN /\ wired \subseteq DOMAIN tags
                       /\ {tgs[t].id : t \in nts[n].tags} = wired

\* What a caller observes of the mirror: the ids and the fields of the tags,
\* of the notebooks, of every notebook's notes and of every note's tags.
View ==
    [tags |-> [t \in DOMAIN tags |-> Tag_to_json(tgs[tags[t]])],
     notebooks |->
        [k \in DOMAIN notebooks |->
            [id |-> nbs[notebooks[k]].id,
             title |-> nbs[notebooks[k]].title,
             type |-> nbs[notebooks[k]].type,
             updated_at |-> nbs[notebooks[k]].updated_at,
             notes |-> [i \in DOMAIN nbs[notebooks[k]].notes |->
                          LET n == nts[nbs[notebooks[k]].notes[i]]
                          IN [id |-> n.id, title |-> n.title, content |-> n.content,
                              updated_at |-> n.updated_at,
                              tags |-> {Tag_to_json(tgs[t]) : t \in n.tags}]]]]]

\* C11: a download() that follows a download() with the remote service
\* answering the same leaves the notebook ids, the tag ids, every notebook's
\* note ids, every note's tag ids and every field as the first left them.
C11_DownloadTwiceIsDownloadOnce ==
    [][(op.name = "download" /\ op'.name = "download" /\ op'.remote = op.remote)
          => View' = View]_vars

C11_Witness ==
    /\ op.name = "download"
    /\ op.again
    /\ raised = "none"
    /\ Cardinality(DOMAIN notebooks) = 2
    /\ \E k \in DOMAIN notebooks : \E i \in DOMAIN nbs[notebooks[k]].notes :
          nts[nbs[notebooks[k]].notes[i]].tags # {}

\* The ids of the entities of an answered list, and the tag ids that the
\* notes of an answered list name.
ListedIds(answer) == {Val(answer)[x].id : x \in 1 .. Len(Val(answer))}
WiredIds(answer) ==
    UNION {{Val(answer)[x].tags[z].id : z \in 1 .. Len(Val(answer)[x].tags)} :
              x \in 1 .. Len(Val(answer))}

\* C12: when download() got the tags and the notebooks and the request for
\* the notes of one notebook failed, every other notebook of the answered
\* list is in the Paperwork's notebooks and holds the notes the remote
\* service lists for it.
C12_FailedNotesStopOneNotebookOnly ==
    (/\ op.name = "download"
     /\ ~IsNone(op.remote.tags)
     /\ ~IsNone(op.remote.notebooks)
     /\ \E k \in ListedIds(op.remote.notebooks) : IsNone(op.remote.notes[k])
     /\ \A k \in ListedIds(op.remote.notebooks) :
           ~IsNone(op.remote.notes[k]) =>
              WiredIds(op.remote.notes[k]) \subseteq ListedIds(op.remote.tags))
    => \A k \in ListedIds(op.remote.notebooks) :
          ~IsNone(op.remote.notes[k]) =>
             /\ k \in DOMAIN notebooks
             /\ DOMAIN nbs[notebooks[k]].notes = ListedIds(op.remote.notes[k])

IsFetch(e, keyword, args) ==
    e.kind = "request" /\ e.method = "GET" /\ e.key = keyword /\ e.args = args
IsPush(e, keyword, args) ==
    e.kind = "request" /\ e.method = "PUT" /\ e.key = keyword /\ e.args = args
Fetches(keyword, args) ==
    Cardinality({j \in DOMAIN trace : IsFetch(trace[j], keyword, args)})
\* The fetches of notebooks and notes in a traversal, in order.
Visits ==
    SelectSeq(trace, LAMBDA e : e.kind = "request" /\ e.method = "GET"
                                   /\ e.key \in {"notebook", "note"})

\* C13: whatever request of a Paperwork.update() fails, a fetch or a push of
\* a notebook or of a note, the traversal goes on: every notebook of the
\* Paperwork object and every note of every notebook is fetched for
\* reconciliation.
C13_FailureDoesNotAbortTraversal ==
    op.name = "update" =>
        \A k \in DOMAIN notebooks :
           /\ Fetches("notebook", <<k>>) >= 1
           /\ \A i \in DOMAIN nbs[notebooks[k]].notes :
                 Fetches("note", <<k, i>>) >= 1

\* C15: a Paperwork.update() that raises nothing fetches every notebook
\* exactly once and every note exactly once, the notes of a notebook right
\* after the notebook and before the next notebook, in ascending order of
\* their titles, and the notebooks in ascending order of their titles.
C15_TraversalInTitleOrder ==
    (op.name = "update" /\ raised = "none") =>
        /\ \A k \in DOMAIN notebooks :
              /\ Fetches("notebook", <<k>>) = 1
              /\ \A i \in DOMAIN nbs[notebooks[k]].notes :
                    Fetches("note", <<k, i>>) = 1
        /\ \A p \in DOMAIN Visits, q \in DOMAIN Visits :
              /\ (p < q /\ Visits[p].key = "notebook" /\ Visits[q].key = "notebook") =>
                    TitleRank(nbs[notebooks[Visits[p].args[1]]].title)
                       <= TitleRank(nbs[notebooks[Visits[q].args[1]]].title)
              /\ (p < q /\ Visits[p].key = "note" /\ Visits[q].key = "note"
                    /\ Visits[p].args[1] = Visits[q].args[1]) =>
                    TitleRank(op.titles[Visits[p].args[2]])
                       <= TitleRank(op.titles[Visits[q].args[2]])
        /\ \A q \in DOMAIN Visits :
              Visits[q].key = "note" =>
                 \E p \in 1 .. q - 1 :
                    /\ Visits[p].key = "notebook"
                    /\ Visits[p].args = <<Visits[q].args[1]>>
                    /\ \A x \in p + 1 .. q - 1 : Visits[x].key = "note"

\* C20: Paperwork.update() does not force the notebooks: a notebook whose
\* fetched remote copy has an updated_at above or equal to the local one is
\* pulled (it takes the remote title and updated_at) and no update_notebook
\* request is sent for it.
C20_TraversalDoesNotForceNotebooks ==
    op.name = "update" =>
        \A k \in DOMAIN notebooks :
           (/\ Fetches("notebook", <<k>>) = 1
            /\ ~IsNone(op.answers.notebook[k])
            /\ Val(op.answers.notebook[k]).updated_at >= op.before[k])
           => /\ \A j \in DOMAIN trace : ~IsPush(trace[j], "notebook", <<k>>)
              /\ nbs[notebooks[k]].title = Val(op.answers.notebook[k]).title
              /\ nbs[notebooks[k]].updated_at = Val(op.answers.notebook[k]).updated_at

\* C14: an operation of the wrapper whose request failed (the transport
\* raised, or the envelope says success is False) returns None to its caller
\* and raises nothing, and it has sent the one request only.
C14_ApiReturnsNoneOnFailure ==
    (op.name = "api" /\ (op.outcome.raises \/ ~op.outcome.success)) =>
        /\ raised = "none"
        /\ IsNone(op.result)
        /\ Len(trace) = 1

Deletes(keyword) ==
    Len(SelectSeq(trace, LAMBDA e : e.kind = "request" /\ e.method = "DELETE"
                                     /\ e.key = keyword))

\* C16: Note.delete() and Notebook.delete(), the remote delete answered,
\* have sent exactly one remote delete and have taken the entity out of its
\* owner's collection: the note's id is no key of its notebook's notes, the
\* notebook's id no key of the Paperwork's notebooks.
C16_DeleteRemovesFromOwner ==
    /\ (op.name = "delete" /\ ~IsNone(op.answer)) =>
          /\ Deletes("note") = 1
          /\ op.id \notin DOMAIN nbs[op.from].notes
    /\ (op.name = "Notebook.delete" /\ ~IsNone(op.answer)) =>
          /\ Deletes("notebook") = 1
          /\ op.id \notin DOMAIN notebooks

\* C19: after move_to(B) went through (the move request answered, nothing
\* raised) the note refers to B as its notebook and its wire form carries
\* B's id as notebook_id.
C19_MovedNoteRefersToTarget ==
    (op.name = "move_to" /\ ~IsNone(op.answer) /\ raised = "none") =>
        /\ nts[op.note].notebook = op.to
        /\ Note_to_json(World, op.note).notebook_id = nbs[op.to].id

Score(x) == op.ratio[op.choices[x]]

\* C17: fuzzy_find returns the candidate with the highest score, the first
\* one in the order of iteration among those with that score; it returns
\* None when there is no candidate or every score is 0; it raises nothing.
C17_FuzzyFindFirstOfTheBest ==
    op.name = "fuzzy_find" =>
        /\ raised = "none"
        /\ IF \A x \in DOMAIN op.choices : Score(x) = 0
           THEN op.result = 0
           ELSE /\ op.result \in DOMAIN op.choices
                /\ \A x \in DOMAIN op.choices : Score(x) <= Score(op.result)
                /\ \A x \in 1 .. op.result - 1 : Score(x) < Score(op.result)

C17_Witness ==
    /\ op.name = "fuzzy_find"
    /\ Len(op.choices) = 3
    /\ Score(1) = 1 /\ Score(2) = 2 /\ Score(3) = 2
    /\ op.result = 2

\* The ids and the titles of the entities of a kind that a lookup can find.
IdsOfKind(kind) ==
    CASE kind = "tag" -> DOMAIN tags
      [] kind = "notebook" -> DOMAIN notebooks
      [] kind = "note" -> UNION {DOMAIN nbs[notebooks[k]].notes : k \in DOMAIN notebooks}
TitlesOfKind(kind) ==
    CASE kind = "tag" -> {tgs[tags[t]].title : t \in DOMAIN tags}
      [] kind = "notebook" -> {nbs[notebooks[k]].title : k \in DOMAIN notebooks}
      [] kind = "note" ->
            UNION {{nts[nbs[notebooks[k]].notes[i]].title :
                       i \in DOMAIN nbs[notebooks[k]].notes} : k \in DOMAIN notebooks}

\* C18: for tags, notebooks and notes alike, a lookup by an id that is not
\* there raises a lookup error, and a lookup by a title that nothing has
\* returns None and raises nothing.
C18_UnknownIdRaisesUnknownTitleIsNone ==
    op.name = "find" =>
        /\ (~op.key.isTitle /\ op.key.id \notin IdsOfKind(op.kind)) =>
              raised = "KeyError"
        /\ (op.key.isTitle /\ op.key.title \notin TitlesOfKind(op.kind)) =>
              (raised = "none" /\ op.result = 0)

\* The places of the trace where a step of the kind `what' is.
StepsAt(what) == {j \in DOMAIN trace : IsStep(trace[j], what)}
HeldBy(nb, id, note) == id \in DOMAIN nbs[nb].notes /\ nbs[nb].notes[id] = note

\* C21: move_to sends the move request first, then takes the note out of its
\* old notebook, then puts it into the new one; when the move request fails
\* the note is still in the notebook it was in and not in the new one; and
\* after every move_to, failed or not, some Notebook of the Paperwork object
\* holds the note.
C21_MoveCallsThenRemovesThenInserts ==
    op.name = "move_to" =>
        /\ trace # <<>> /\ IsRequest(trace[1], "move")
        /\ Len(RequestsTo(trace, "move")) = 1
        /\ \A d \in StepsAt("del_note"), a \in StepsAt("add_note") : 1 < d /\ d < a
        /\ StepsAt("add_note") # {} => StepsAt("del_note") # {}
        /\ (IsNone(op.answer) /\ op.from # op.to) =>
              /\ HeldBy(op.from, op.id, op.note)
              /\ ~HeldBy(op.to, op.id, op.note)
              /\ StepsAt("del_note") = {} /\ StepsAt("add_note") = {}
        /\ \E k \in DOMAIN notebooks : HeldBy(notebooks[k], op.id, op.note)

C21_Witness ==
    /\ op.name = "move_to"
    /\ IsNone(op.answer)
    /\ op.from # op.to
    /\ raised = "TypeError"
    /\ HeldBy(op.from, op.id, op.note)

\* The Note objects that the Notebooks of the Paperwork object hold.
HeldNotes ==
    UNION {Range(nbs[notebooks[k]].notes) : k \in DOMAIN notebooks}

\* C23: in every state, for every Tag of the Paperwork's tags mapping (there
\* is none before the first download) and every Note held by one of its
\* Notebooks, the Note is in the Tag's notes exactly when the Tag is in the
\* Note's tags.
C23_TagNotesAreTheNotesCarryingIt ==
    \A t \in Range(tags) : \A n \in HeldNotes :
        n \in tgs[t].notes <=> t \in nts[n].tags

\* C24: after a download() that got every answer, the ids of the Paperwork's
\* notebooks are the ids of the notebooks the remote service listed and the
\* ids of its tags are the ids of the tags the remote service listed, so
\* that what an earlier download stored and the remote no longer lists is
\* gone.
C24_DownloadMirrorsTheRemoteIds ==
    (op.name = "download" /\ raised = "none") =>
        /\ DOMAIN notebooks = ListedIds(op.remote.notebooks)
        /\ DOMAIN tags = ListedIds(op.remote.tags)

\* The method of the operations of each kind, the operations that address a
\* note, and those that address a notebook.
MethodOfKind(call) ==
    CASE call \in {"create_notebook", "create_note"} -> "POST"
      [] call \in {"update_notebook", "update_note"} -> "PUT"
      [] call \in {"delete_notebook", "delete_note", "delete_notes",
                   "delete_note_attachment"} -> "DELETE"
      [] OTHER -> "GET"
NoteCalls ==
    {"get_note", "get_notes", "update_note", "delete_note", "delete_notes",
     "move_note", "move_notes", "list_note_versions", "list_notes_versions",
     "get_note_version", "list_note_attachments", "get_note_attachment",
     "delete_note_attachment"}
NotebookCalls ==
    {"get_notebook", "update_notebook", "delete_notebook", "list_notebook_notes",
     "create_note"}
TagCalls == {"get_tag", "list_tagged"}

\* C25: every operation of the wrapper has sent exactly one request, with
\* the method of its kind (POST to create, PUT to update, DELETE to delete,
\* GET otherwise), with a resource key that has as many path arguments as
\* the request carries, a note operation carrying the note's notebook id and
\* then the note's id, a notebook operation the notebook's id, a tag
\* operation the tag's id, a search the base64 text of its keyword; and it
\* has handed to its caller what the transport answered.
C25_OneRequestAndItsResponse ==
    /\ op.name = "upload_attachment" => Len(trace) = 1
    /\ op.name = "api" =>
          /\ Len(trace) = 1
          /\ trace[1].kind = "request"
          /\ trace[1].method = MethodOfKind(op.call)
          /\ Len(trace[1].args) = api_path[trace[1].key]
          /\ op.call \in NoteCalls =>
                trace[1].args[1] = op.notebook_id /\ trace[1].args[2] = op.id
          /\ op.call \in NotebookCalls => trace[1].args[1] = op.notebook_id
          /\ op.call \in TagCalls => trace[1].args = <<op.other>>
          /\ op.call \in {"move_note", "move_notes"} => trace[1].args[3] = op.other
          /\ op.call = "search" => trace[1].args = <<b64(op.keyword)>>
          /\ (~op.outcome.raises /\ op.outcome.success) =>
                raised = "none" /\ op.result = Some(op.outcome.response)

\* A Note.update() of the race, not forced, that has pushed; the service's
\* copy was changed between its fetch and its push; the note itself was
\* changed between the two.
PushedUnforced == IsNoteUpdate /\ ~op.force /\ Pushes("note") = 1
ChangedBetween == op.server.updated_at # Val(op.remote).updated_at
NoteChangedBetween == op.before.updated_at # op.fetched_with

=============================================================================
